---- MODULE Spec2Model ----
(***************************************************************************)
(* Open-Meteo weather dashboard: the render pass of the two variants       *)
(* (streamlit_weather_app.py = "v1", streamlit_weather_app_v2.py = "v2"),  *)
(* its two cached helpers reverse_geocode and fetch_hourly_weather, and    *)
(* the summary cards and chart tabs.                                       *)
(*                                                                         *)
(* Coordinates are integers in units of 1/10000 degree.  Timestamps are    *)
(* positive integers; a JSON null in the time array is NullTime and an     *)
(* unparsable string is BadTime; pandas' NaT is NaT.  A table row carries  *)
(* the position it had in the upstream arrays and the response's payload   *)
(* version (gen), which together determine every cell of the row.          *)
(***************************************************************************)
EXTENDS Integers, Sequences, FiniteSets, TLC

VARIABLES
    variant,      \* "v1" | "v2": which of the two scripts runs
    now,          \* wall clock, seconds
    pc,           \* position of the render pass (or of the single call)
    map_state,    \* what st_folium returned: NoClick or <<lat, lng>>
    hours,        \* slider value / hours argument
    lat, lon,     \* selected coordinate
    place_name,   \* result of reverse_geocode
    gresp,        \* outcome of the last reverse-geocoding request
    fresp,        \* outcome of the last forecast request
    df,           \* table returned by fetch_hourly_weather
    errors,       \* number of st.error banners on the page
    warnings,     \* number of st.warning banners on the page
    notices,      \* st.info notices shown inside the tabs
    metrics,      \* sequence of rendered metric tiles
    charts,       \* sequence of rendered charts
    ncache,       \* st.cache_data store of reverse_geocode
    fcache,       \* st.cache_data store of fetch_hourly_weather
    geoReqs,      \* reverse-geocoding requests issued so far
    requests,     \* forecast requests issued so far
    passReqs,     \* forecast requests issued in the current pass
    lastGood,     \* per key: time and table of the last fetch that went to the network and succeeded
    lastFail      \* keys whose most recent call raised

vars == <<variant, now, pc, map_state, hours, lat, lon, place_name, gresp, fresp, df,
          errors, warnings, notices, metrics, charts, ncache, fcache,
          geoReqs, requests, passReqs, lastGood, lastFail>>

(***************************** program constants ***************************)
DEFAULT_LAT == 375665
DEFAULT_LON == 1269780
NAME_TTL == 3600
FORECAST_TTL == 900
SLIDER_MIN == 12
SLIDER_MAX == 120
SLIDER_STEP == 6

(********************************* bounds **********************************)
MaxSlider == 12        \* largest slider position the model uses
MaxRows == 3           \* longest upstream array in FetchSpec
MaxStamp == 2          \* largest timestamp in FetchSpec
MaxHours == 3          \* largest hours argument in FetchSpec
MaxGen == 2            \* payload versions of the forecast server
TickStep == 400        \* seconds between two render passes, unless a full forecast ttl goes by
MaxTime == 900         \* the clock stops here

(**************************** number formatting ****************************)
Abs(x) == IF x < 0 THEN -x ELSE x

Digit(d) == <<"0", "1", "2", "3", "4", "5", "6", "7", "8", "9">>[d + 1]

RECURSIVE NatStr(_)
NatStr(n) == IF n < 10 THEN Digit(n) ELSE NatStr(n \div 10) \o Digit(n % 10)

\* Magnitudes (in 1/10000) ending in 5 whose nearest double lies above the
\* decimal tie, so that "%.3f" rounds them up: 0.0005 and 10.0015.  The other
\* ties of the model (37.5665) lie below and round down.
BinaryAbove == {5, 100015}

Round3(a) ==
    IF a % 10 > 5 \/ (a % 10 = 5 /\ a \in BinaryAbove) THEN a \div 10 + 1 ELSE a \div 10

\* f"{x:.3f}" for x given in 1/10000: the sign is the float's own sign, so a
\* small negative value prints as "-0.000".
Fmt3(x) ==
    LET m == Round3(Abs(x))
    IN  (IF x < 0 THEN "-" ELSE "") \o NatStr(m \div 1000) \o "."
        \o Digit((m \div 100) % 10) \o Digit((m \div 10) % 10) \o Digit(m % 10)

(****************************** reverse_geocode ****************************)
GeoKeys == {"name", "admin1", "admin2", "country"}

\* dict.get(k): None and "" are both falsy in every use the code makes of the
\* value (`or ""`, `if p`), so an absent key and a null read as "".
Get(item, k) == IF k \in DOMAIN item THEN item[k] ELSE ""

Or(a, b) == IF a # "" THEN a ELSE b

RECURSIVE Join(_)
Join(parts) ==
    IF Len(parts) = 0 THEN ""
    ELSE IF Len(parts) = 1 THEN parts[1]
    ELSE parts[1] \o ", " \o Join(Tail(parts))

Truthy(parts) == SelectSeq(parts, LAMBDA p : p # "")

Fallback(la, lo) == Fmt3(la) \o ", " \o Fmt3(lo)

\* The requests.get / raise_for_status / r.json() outcomes that end in the
\* except clause, and the bodies without a usable result list.
GeoRaising == {"timeout", "status", "badjson", "baditem"}
GeoNoResult == {"null", "noresults", "emptyresults"}

ComposeLabel(item) ==
    LET city == Get(item, "name")
        admin == Or(Get(item, "admin1"), Or(Get(item, "admin2"), ""))
        country == Or(Get(item, "country"), "")
    IN  Join(Truthy(<<city, admin, country>>))

\* reverse_geocode falling back only in the except clause: a body without
\* results yields the join of no parts.
reverse_geocode_ExceptOnly(la, lo, resp) ==
    IF resp.kind \in GeoRaising THEN Fallback(la, lo)
    ELSE IF resp.kind = "results" THEN ComposeLabel(resp.item) ELSE ""

reverse_geocode(la, lo, resp) ==
    IF resp.kind = "results" THEN ComposeLabel(resp.item) ELSE Fallback(la, lo)

(*************************** forecast response ******************************)
Vars == {"temperature_2m", "precipitation", "windspeed_10m", "relative_humidity_2m"}

BadTime == -1      \* a time entry pd.to_datetime cannot parse
NullTime == 0      \* a JSON null in the time array
NaT == 0           \* pandas' missing timestamp

\* requests.get raising, raise_for_status raising, r.json() raising, and
\* pd.DataFrame raising on arrays of unequal length.
FetchRaising == {"timeout", "status", "badjson", "ragged"}
\* A null body and a body without (or with a null) "hourly": hourly = {}.
FetchNoHourly == {"null", "nohourly"}

NoHourly == [hasTime |-> FALSE, time |-> << >>, n |-> 0, keys |-> {}, gen |-> 0]

Response(kind, h) ==
    [kind |-> kind, hasTime |-> h.hasTime, time |-> h.time, n |-> h.n, keys |-> h.keys,
     gen |-> h.gen]

\* js.get("hourly") or {}
Hourly(resp) == IF resp.kind = "table" THEN resp ELSE Response(resp.kind, NoHourly)

(********************************* tables **********************************)
EmptyDF ==
    [timeIndexed |-> FALSE, index |-> << >>, rows |-> << >>, columns |-> {}, gen |-> 0]

\* DataFrame.empty: some axis has length 0.
IsEmpty(t) == Len(t.rows) = 0 \/ t.columns = {}

rename_map ==
    [k \in Vars |->
        CASE k = "temperature_2m" -> "Temperature (C)"
          [] k = "precipitation" -> "Precipitation (mm)"
          [] k = "windspeed_10m" -> "Wind Speed (km/h)"
          [] k = "relative_humidity_2m" -> "Relative Humidity (%)"]

Labels == {rename_map[k] : k \in Vars}

\* A rename that also adds every label of the map (a reindex on the labels).
Rename_Fabricate(columns, m) ==
    {IF c \in DOMAIN m THEN m[c] ELSE c : c \in columns} \cup {m[k] : k \in DOMAIN m}

\* df.rename(columns=m): a column with a key in m takes its label, any other
\* column keeps its name, and no column is added.
Rename(columns, m) == {IF c \in DOMAIN m THEN m[c] ELSE c : c \in columns}

\* s[:h] with Python's slice rules.
PySliceTo(s, h) ==
    IF h >= 0 THEN SubSeq(s, 1, IF h < Len(s) THEN h ELSE Len(s))
    ELSE SubSeq(s, 1, IF Len(s) + h > 0 THEN Len(s) + h ELSE 0)

Range1(n) == [i \in 1..n |-> i]

\* Insert position p into the position list s, which is sorted by stamp[_];
\* p goes after the entries with an equal stamp.
RECURSIVE InsertByStamp(_, _, _)
InsertByStamp(s, p, stamp) ==
    IF Len(s) = 0 THEN <<p>>
    ELSE IF stamp[p] < stamp[Head(s)] THEN <<p>> \o s
    ELSE <<Head(s)>> \o InsertByStamp(Tail(s), p, stamp)

\* The table left in upstream order.
SortIndex_Unsorted(ps, stamp) == ps

\* sort_index(): the positions ps in ascending order of their stamp.
RECURSIVE SortIndex(_, _)
SortIndex(ps, stamp) ==
    IF Len(ps) = 0 THEN << >>
    ELSE InsertByStamp(SortIndex(SubSeq(ps, 1, Len(ps) - 1), stamp), ps[Len(ps)], stamp)

\* pd.to_datetime(..., errors="coerce") on one entry.
ToDatetimeCoerce(t) == IF t = BadTime \/ t = NullTime THEN NaT ELSE t

\* pd.to_datetime(...) on one entry that it accepts.
ToDatetime(t) == IF t = NullTime THEN NaT ELSE t

Raised == [raised |-> TRUE, df |-> EmptyDF]
Returned(t) == [raised |-> FALSE, df |-> t]

(**************************** fetch_hourly_weather **************************)
fetch_hourly_weather_v2(resp, h) ==
    IF resp.kind \in FetchRaising THEN Raised
    ELSE
        LET hr == Hourly(resp)
        IN  IF ~hr.hasTime \/ hr.n = 0 THEN Returned(EmptyDF)
            ELSE
                LET stamp == [i \in 1..hr.n |-> ToDatetimeCoerce(hr.time[i])]
                    kept == SelectSeq(Range1(hr.n), LAMBDA i : stamp[i] # NaT)
                    sorted == SortIndex(kept, stamp)
                    cut == IF h > 0 THEN PySliceTo(sorted, h) ELSE sorted
                    present == [k \in hr.keys \cap DOMAIN rename_map |-> rename_map[k]]
                IN  Returned([timeIndexed |-> TRUE,
                              index |-> [i \in 1..Len(cut) |-> stamp[cut[i]]],
                              rows |-> cut,
                              columns |-> Rename(hr.keys, present),
                              gen |-> hr.gen])

fetch_hourly_weather_v1(resp, h) ==
    IF resp.kind \in FetchRaising THEN Raised
    ELSE
        LET hr == Hourly(resp)
        IN  IF hr.hasTime THEN
                IF \E i \in 1..hr.n : hr.time[i] = BadTime THEN Raised
                ELSE
                    LET cut == PySliceTo(Range1(hr.n), h)
                    IN  Returned([timeIndexed |-> TRUE,
                                  index |-> [i \in 1..Len(cut) |-> ToDatetime(hr.time[cut[i]])],
                                  rows |-> cut,
                                  columns |-> Rename(hr.keys, rename_map),
                                  gen |-> hr.gen])
            ELSE
                Returned([timeIndexed |-> FALSE,
                          index |-> [i \in 1..hr.n |-> i - 1],
                          rows |-> Range1(hr.n),
                          columns |-> Rename(hr.keys, rename_map),
                          gen |-> hr.gen])

\* fetch_hourly_weather swallowing its errors the way reverse_geocode does.
fetch_hourly_weather_Swallow(v, resp, h) ==
    LET out == IF v = "v1" THEN fetch_hourly_weather_v1(resp, h)
               ELSE fetch_hourly_weather_v2(resp, h)
    IN  IF out.raised THEN Returned(EmptyDF) ELSE out

fetch_hourly_weather(v, resp, h) ==
    IF v = "v1" THEN fetch_hourly_weather_v1(resp, h) ELSE fetch_hourly_weather_v2(resp, h)

(******************************** presenter ********************************)
\* One st.metric tile: the column it reads, and either "N/A" or the row whose
\* cell it formats.
Tile(label, t, row) ==
    IF label \in t.columns THEN [label |-> label, na |-> FALSE, row |-> row, gen |-> t.gen]
    ELSE [label |-> label, na |-> TRUE, row |-> 0, gen |-> 0]

\* c1..c4, in the order the script fills them.
MetricOrder ==
    <<"Temperature (C)", "Wind Speed (km/h)", "Precipitation (mm)", "Relative Humidity (%)">>

Chart(tab, kind, cols, t) == [tab |-> tab, kind |-> kind, cols |-> cols, rows |-> t.rows, gen |-> t.gen]

\* v2: latest = df.iloc[-1]; every tile and tab guarded by `in df`.
present_v2(t) ==
    LET latest == t.rows[Len(t.rows)]
        wh == {"Wind Speed (km/h)", "Relative Humidity (%)"} \cap t.columns
    IN  [pc |-> "Rendered",
         metrics |-> [i \in 1..4 |-> Tile(MetricOrder[i], t, latest)],
         charts |->
            (IF "Temperature (C)" \in t.columns
             THEN <<Chart("Temperature", "line", {"Temperature (C)"}, t)>> ELSE << >>)
            \o (IF "Precipitation (mm)" \in t.columns
                THEN <<Chart("Precipitation", "area", {"Precipitation (mm)"}, t)>> ELSE << >>)
            \o (IF wh # {} THEN <<Chart("Wind & Humidity", "line", wh, t)>> ELSE << >>),
         notices |->
            (IF "Temperature (C)" \in t.columns THEN {} ELSE {"Temperature"})
            \cup (IF "Precipitation (mm)" \in t.columns THEN {} ELSE {"Precipitation"})
            \cup (IF wh # {} THEN {} ELSE {"Wind & Humidity"})]

\* v1: latest = df.iloc[0]; latest[label] and df[[label]] raise KeyError on an
\* absent column, and what was drawn before the raise stays on the page.
present_v1(t) ==
    LET latest == t.rows[1]
        ok(i) == \A j \in 1..i : MetricOrder[j] \in t.columns
        drawn == IF ok(4) THEN 4 ELSE (CHOOSE i \in 0..3 : ok(i) /\ ~ok(i + 1))
    IN  IF drawn = 4
        THEN [pc |-> "Rendered",
              metrics |-> [i \in 1..4 |-> Tile(MetricOrder[i], t, latest)],
              charts |-> <<Chart("Temperature", "line", {"Temperature (C)"}, t),
                           Chart("Precipitation", "area", {"Precipitation (mm)"}, t),
                           Chart("Wind & Humidity", "line",
                                 {"Wind Speed (km/h)", "Relative Humidity (%)"}, t)>>,
              notices |-> {}]
        ELSE [pc |-> "Crashed",
              metrics |-> [i \in 1..drawn |-> Tile(MetricOrder[i], t, latest)],
              charts |-> << >>,
              notices |-> {}]

present(v, t) == IF v = "v1" THEN present_v1(t) ELSE present_v2(t)

(******************************** st.cache_data ****************************)
\* The ttl read in minutes.
CacheHit_Minutes(cache, key, t, ttl) == key \in DOMAIN cache /\ t - cache[key].at < ttl \div 60

\* A stored value is served while it is younger than the ttl.
CacheHit(cache, key, t, ttl) == key \in DOMAIN cache /\ t - cache[key].at < ttl

CacheStore(cache, key, t, value) ==
    [k \in DOMAIN cache \cup {key} |-> IF k = key THEN [at |-> t, value |-> value] ELSE cache[k]]

\* A store that also keeps the result of a call that raised.
StoreOutcome_Always(cache, key, t, out) == CacheStore(cache, key, t, out.df)

\* The store after a call that missed: a call that raises stores nothing.
StoreOutcome(cache, key, t, out) ==
    IF out.raised THEN cache ELSE CacheStore(cache, key, t, out.df)

NoCache == [k \in {} |-> 0]

(******************************** environment ******************************)
NoClick == << >>
NoItem == [k \in {} |-> ""]
NoGeo == [kind |-> "none", item |-> NoItem]
NoForecast == Response("none", NoHourly)

SLIDER_DEFAULT == 48
SliderValues ==
    {h \in SLIDER_MIN..SLIDER_MAX :
        (h - SLIDER_MIN) % SLIDER_STEP = 0 /\ (h <= MaxSlider \/ h = SLIDER_DEFAULT)}

Clicks == {<<100000, 200000>>}

GeoValue(k) ==
    CASE k = "name" -> "Seoul"
      [] k = "admin1" -> "Capital"
      [] k = "admin2" -> "Jung"
      [] k = "country" -> "Korea"

\* First entries of the result list: every field absent, empty or set.
Items == UNION {[S -> {"", "x"}] : S \in SUBSET GeoKeys}
ItemOf(f) == [k \in DOMAIN f |-> IF f[k] = "" THEN "" ELSE GeoValue(k)]

GeoResponses ==
    {[kind |-> k, item |-> NoItem] : k \in GeoRaising \cup GeoNoResult}
    \cup {[kind |-> "results", item |-> ItemOf(f)] : f \in Items}

\* The geocoding outcomes the render pass is run against.
PassGeoResponses ==
    {r \in GeoResponses :
        r.kind = "results" => DOMAIN r.item \in {{}, GeoKeys} /\ \A k \in DOMAIN r.item : r.item[k] # ""}

TimeSeqs == UNION {[1..n -> BadTime..MaxStamp] : n \in 0..MaxRows}

Tables ==
    {[hasTime |-> TRUE, time |-> ts, n |-> Len(ts), keys |-> ks, gen |-> 1] :
        ts \in TimeSeqs, ks \in SUBSET Vars}
    \cup {[hasTime |-> FALSE, time |-> << >>, n |-> n, keys |-> ks, gen |-> 1] :
            n \in 0..MaxRows, ks \in (SUBSET Vars) \ {{}}}

FetchResponses ==
    {Response(k, NoHourly) : k \in FetchRaising \cup FetchNoHourly}
    \cup {Response("table", h) : h \in Tables}

\* The forecast outcomes the render pass is run against.
PassTables ==
    {[hasTime |-> TRUE, time |-> <<1, 2>>, n |-> 2, keys |-> Vars, gen |-> g] : g \in 1..MaxGen}
    \cup {[hasTime |-> TRUE, time |-> <<1, 2>>, n |-> 2, keys |-> Vars \ {"precipitation"}, gen |-> 1],
          [hasTime |-> TRUE, time |-> <<2, BadTime>>, n |-> 2, keys |-> {"precipitation"}, gen |-> 1],
          [hasTime |-> TRUE, time |-> << >>, n |-> 0, keys |-> Vars, gen |-> 1],
          [hasTime |-> FALSE, time |-> << >>, n |-> 2, keys |-> Vars, gen |-> 1]}

PassFetchResponses ==
    {Response(k, NoHourly) : k \in FetchRaising \cup FetchNoHourly}
    \cup {Response("table", h) : h \in PassTables}

Terminal == {"Failed", "Empty", "Rendered", "Crashed"}

(******************************** render pass ******************************)
Blank ==
    /\ place_name = ""
    /\ gresp = NoGeo
    /\ fresp = NoForecast
    /\ df = EmptyDF
    /\ errors = 0
    /\ warnings = 0
    /\ notices = {}
    /\ metrics = << >>
    /\ charts = << >>
    /\ passReqs = 0

Fresh ==
    /\ now = 0
    /\ ncache = NoCache
    /\ fcache = NoCache
    /\ geoReqs = 0
    /\ requests = 0
    /\ lastGood = NoCache
    /\ lastFail = {}

Init ==
    /\ variant \in {"v1", "v2"}
    /\ pc = "Idle"
    /\ map_state = NoClick
    /\ hours = SLIDER_DEFAULT
    /\ lat = DEFAULT_LAT
    /\ lon = DEFAULT_LON
    /\ Blank
    /\ Fresh

\* A map click or a slider move reruns the script from the top; the first run
\* needs neither.
Interact(click, h, dt) ==
    /\ pc \in Terminal
    /\ now + dt <= MaxTime
    /\ now' = now + dt
    /\ map_state' = click
    /\ hours' = h
    /\ pc' = "Selecting"
    /\ place_name' = ""
    /\ gresp' = NoGeo
    /\ fresp' = NoForecast
    /\ df' = EmptyDF
    /\ errors' = 0
    /\ warnings' = 0
    /\ notices' = {}
    /\ metrics' = << >>
    /\ charts' = << >>
    /\ passReqs' = 0
    /\ UNCHANGED <<variant, lat, lon, ncache, fcache, geoReqs, requests, lastGood, lastFail>>

FirstRun ==
    /\ pc = "Idle"
    /\ pc' = "Selecting"
    /\ UNCHANGED <<variant, now, map_state, hours, lat, lon, place_name, gresp, fresp, df,
                   errors, warnings, notices, metrics, charts, ncache, fcache,
                   geoReqs, requests, passReqs, lastGood, lastFail>>

Select ==
    /\ pc = "Selecting"
    /\ lat' = IF map_state # NoClick THEN map_state[1] ELSE DEFAULT_LAT
    /\ lon' = IF map_state # NoClick THEN map_state[2] ELSE DEFAULT_LON
    /\ pc' = "Naming"
    /\ UNCHANGED <<variant, now, map_state, hours, place_name, gresp, fresp, df,
                   errors, warnings, notices, metrics, charts, ncache, fcache,
                   geoReqs, requests, passReqs, lastGood, lastFail>>

Name(resp) ==
    /\ pc = "Naming"
    /\ LET key == <<lat, lon>>
       IN  IF CacheHit(ncache, key, now, NAME_TTL)
           THEN /\ resp = NoGeo
                /\ place_name' = ncache[key].value
                /\ UNCHANGED <<ncache, geoReqs>>
           ELSE /\ resp # NoGeo
                /\ place_name' = reverse_geocode(lat, lon, resp)
                /\ ncache' = CacheStore(ncache, key, now, reverse_geocode(lat, lon, resp))
                /\ geoReqs' = geoReqs + 1
    /\ gresp' = resp
    /\ pc' = "Fetching"
    /\ UNCHANGED <<variant, now, map_state, hours, lat, lon, fresp, df,
                   errors, warnings, notices, metrics, charts, fcache,
                   requests, passReqs, lastGood, lastFail>>

\* try: df = fetch_hourly_weather(...) / except: st.error, st.stop;
\* if df.empty: st.warning, st.stop.
Fetch(resp) ==
    /\ pc = "Fetching"
    /\ LET key == <<lat, lon, hours>>
           hit == CacheHit(fcache, key, now, FORECAST_TTL)
           out == IF hit THEN Returned(fcache[key].value)
                  ELSE fetch_hourly_weather(variant, resp, hours)
       IN  /\ hit <=> resp = NoForecast
           /\ fresp' = resp
           /\ df' = out.df
           /\ fcache' = IF hit THEN fcache ELSE StoreOutcome(fcache, key, now, out)
           /\ requests' = IF hit THEN requests ELSE requests + 1
           /\ passReqs' = IF hit THEN passReqs ELSE passReqs + 1
           /\ lastGood' = IF hit \/ out.raised THEN lastGood
                          ELSE CacheStore(lastGood, key, now, out.df)
           /\ lastFail' = IF out.raised THEN lastFail \cup {key} ELSE lastFail \ {key}
           /\ errors' = IF out.raised THEN errors + 1 ELSE errors
           /\ warnings' = IF ~out.raised /\ IsEmpty(out.df) THEN warnings + 1 ELSE warnings
           /\ pc' = IF out.raised THEN "Failed"
                    ELSE IF IsEmpty(out.df) THEN "Empty" ELSE "Populated"
    /\ UNCHANGED <<variant, now, map_state, hours, lat, lon, place_name, gresp,
                   notices, metrics, charts, ncache, geoReqs>>

Present ==
    /\ pc = "Populated"
    /\ LET page == present(variant, df)
       IN  /\ pc' = page.pc
           /\ metrics' = page.metrics
           /\ charts' = page.charts
           /\ notices' = page.notices
    /\ UNCHANGED <<variant, now, map_state, hours, lat, lon, place_name, gresp, fresp, df,
                   errors, warnings, ncache, fcache, geoReqs, requests, passReqs,
                   lastGood, lastFail>>

Next ==
    \/ FirstRun
    \/ \E click \in Clicks \cup {NoClick}, h \in SliderValues, dt \in {TickStep, FORECAST_TTL} :
          Interact(click, h, dt)
    \/ Select
    \/ \E resp \in PassGeoResponses \cup {NoGeo} : Name(resp)
    \/ \E resp \in PassFetchResponses \cup {NoForecast} : Fetch(resp)
    \/ Present

Spec == Init /\ [][Next]_vars

(************************ reverse_geocode, called alone *********************)
GeoCoords == {<<DEFAULT_LAT, DEFAULT_LON>>, <<100000, 200000>>, <<-100015, 5>>, <<-4, 1799996>>}

GeoInit ==
    /\ variant \in {"v1", "v2"}
    /\ pc = "call"
    /\ \E c \in GeoCoords : lat = c[1] /\ lon = c[2]
    /\ gresp \in GeoResponses
    /\ map_state = NoClick
    /\ hours = SLIDER_DEFAULT
    /\ place_name = ""
    /\ fresp = NoForecast
    /\ df = EmptyDF
    /\ errors = 0 /\ warnings = 0 /\ notices = {} /\ metrics = << >> /\ charts = << >>
    /\ passReqs = 0
    /\ Fresh

GeoCall ==
    /\ pc = "call"
    /\ place_name' = reverse_geocode(lat, lon, gresp)
    /\ geoReqs' = geoReqs + 1
    /\ pc' = "returned"
    /\ UNCHANGED <<variant, now, map_state, hours, lat, lon, gresp, fresp, df,
                   errors, warnings, notices, metrics, charts, ncache, fcache,
                   requests, passReqs, lastGood, lastFail>>

GeoNext == GeoCall

GeoSpec == GeoInit /\ [][GeoNext]_vars

(********************** fetch_hourly_weather, called alone ******************)
FetchInit ==
    /\ variant \in {"v1", "v2"}
    /\ pc = "call"
    /\ hours \in -1..MaxHours
    /\ fresp \in FetchResponses
    /\ map_state = NoClick
    /\ lat = DEFAULT_LAT
    /\ lon = DEFAULT_LON
    /\ place_name = ""
    /\ gresp = NoGeo
    /\ df = EmptyDF
    /\ errors = 0 /\ warnings = 0 /\ notices = {} /\ metrics = << >> /\ charts = << >>
    /\ passReqs = 0
    /\ Fresh

FetchCall ==
    /\ pc = "call"
    /\ LET out == fetch_hourly_weather(variant, fresp, hours)
       IN  /\ df' = out.df
           /\ pc' = IF out.raised THEN "raised" ELSE "returned"
    /\ requests' = requests + 1
    /\ UNCHANGED <<variant, now, map_state, hours, lat, lon, place_name, gresp, fresp,
                   errors, warnings, notices, metrics, charts, ncache, fcache,
                   geoReqs, passReqs, lastGood, lastFail>>

FetchNext == FetchCall

FetchSpec == FetchInit /\ [][FetchNext]_vars

(******************************** properties *******************************)
FetchKey == <<lat, lon, hours>>
AfterFetch == {"Failed", "Empty", "Populated", "Rendered", "Crashed"}
Wanted(resp) == {rename_map[k] : k \in Hourly(resp).keys}

Ascending(ix) == \A i \in 1..Len(ix) - 1 : ix[i] <= ix[i + 1]
StrictlyAscending(ix) == \A i \in 1..Len(ix) - 1 : ix[i] < ix[i + 1]

\* C1: whatever the coordinate and whatever the outcome of the reverse-geocoding
\* request, reverse_geocode returns a non-empty string.
C1_NameNonEmpty == pc = "returned" => place_name # ""

C3_FailureShown ==
    (passReqs = 1 /\ fresp.kind \in {"timeout", "status"}) =>
        /\ pc = "Failed"
        /\ errors = 1
        /\ warnings = 0
        /\ metrics = << >>
        /\ charts = << >>
        /\ notices = {}

C3_Witness ==
    /\ pc = "Failed"
    /\ fresp.kind = "status"
    /\ errors = 1
    /\ requests = 2

\* C4: when the reverse-geocoding request fails in transport, by status or by a
\* malformed body, or brings no result, the name is the latitude and longitude
\* to 3 decimals joined by ", ", no error is on the page when the pass reaches
\* the forecast fetch, and the pass does reach it.
C4_FallbackName ==
    (gresp.kind \in GeoRaising \cup GeoNoResult) =>
        /\ place_name = Fmt3(lat) \o ", " \o Fmt3(lon)
        /\ (lat = 100000 /\ lon = 200000) => place_name = "10.000, 20.000"
        /\ (lat = DEFAULT_LAT /\ lon = DEFAULT_LON) => place_name = "37.566, 126.978"
        /\ pc \in {"Fetching"} \cup AfterFetch
        /\ pc = "Fetching" => errors = 0 /\ warnings = 0

C4_Witness ==
    /\ pc = "Fetching"
    /\ gresp.kind = "timeout"
    /\ lat = 100000
    /\ lon = 200000
    /\ place_name = "10.000, 20.000"
    /\ errors = 0

\* C5: in both variants, a successful forecast response without a time field,
\* or one that yields no rows, ends the pass in the "No data returned" warning
\* with an empty table, no metric and no chart.
C5_EmptyWarning ==
    (/\ pc \in AfterFetch \ {"Failed"}
     /\ passReqs = 1
     /\ ~Hourly(fresp).hasTime \/ Len(df.rows) = 0) =>
        /\ pc = "Empty"
        /\ IsEmpty(df)
        /\ warnings = 1
        /\ metrics = << >>
        /\ charts = << >>

\* C6: in both variants, presenting a non-empty table that lacks some of the
\* four display columns raises nothing: four tiles, "N/A" exactly for the
\* absent columns, a notice instead of a chart in the temperature and
\* precipitation tabs when their column is absent, and the wind/humidity tab
\* charting the columns present (a notice when neither is).
C6_MissingColumns ==
    LET wh == {"Wind Speed (km/h)", "Relative Humidity (%)"} \cap df.columns
        tabs == {charts[i].tab : i \in 1..Len(charts)}
    IN  pc \in {"Rendered", "Crashed"} =>
            /\ pc = "Rendered"
            /\ Len(metrics) = 4
            /\ \A i \in 1..4 : metrics[i].na <=> MetricOrder[i] \notin df.columns
            /\ "Temperature" \in notices <=> "Temperature (C)" \notin df.columns
            /\ "Precipitation" \in notices <=> "Precipitation (mm)" \notin df.columns
            /\ "Wind & Humidity" \in notices <=> wh = {}
            /\ tabs \cap notices = {}
            /\ \A i \in 1..Len(charts) : charts[i].cols \subseteq df.columns
            /\ \A i \in 1..Len(charts) : charts[i].tab = "Wind & Humidity" => charts[i].cols = wh

\* C7: a call made less than FORECAST_TTL after a call with the same
\* (lat, lon, hours) fetched and succeeded issues no forecast request and
\* returns that call's table, whatever was called in between.
C7_CacheHit ==
    [][(/\ pc = "Fetching"
        /\ pc' # "Fetching"
        /\ FetchKey \in DOMAIN lastGood
        /\ now - lastGood[FetchKey].at < FORECAST_TTL) =>
            /\ requests' = requests
            /\ pc' # "Failed"
            /\ df' = lastGood[FetchKey].value]_vars

C7_Witness ==
    /\ pc \in {"Populated", "Rendered"}
    /\ passReqs = 0
    /\ now = 2 * TickStep
    /\ FetchKey \in DOMAIN lastGood
    /\ lastGood[FetchKey].at = 0
    /\ df = lastGood[FetchKey].value
    /\ \E k \in DOMAIN lastGood : k # FetchKey /\ lastGood[k].at = TickStep

\* C8 as stated: the columns of every returned table are exactly the display
\* labels of the variables present in the response.
C8_Original == pc = "returned" => df.columns = Wanted(fresp)

\* C8 as amended: no returned table has a column for a variable absent from the
\* response; every variable present appears under its display label, except
\* that v2 returns the empty, column-less table when the response has no time
\* field or no rows.
C8_Columns ==
    pc = "returned" =>
        IF variant = "v2" /\ (~Hourly(fresp).hasTime \/ Hourly(fresp).n = 0)
        THEN df.columns = {}
        ELSE df.columns = Wanted(fresp)

C8_Witness ==
    /\ pc = "returned"
    /\ variant = "v2"
    /\ Hourly(fresp).keys = Vars \ {"precipitation"}
    /\ Len(df.rows) = 2
    /\ df.columns = Labels \ {"Precipitation (mm)"}

\* C9: a pass moves Selecting, Naming, Fetching in that order and ends in
\* Failed, Empty or Rendered (through Populated); metrics and charts are on the
\* page only once the pass is Rendered; no pass goes back.
PassEdges ==
    {<<"Idle", "Selecting">>, <<"Selecting", "Naming">>, <<"Naming", "Fetching">>,
     <<"Fetching", "Failed">>, <<"Fetching", "Empty">>, <<"Fetching", "Populated">>,
     <<"Populated", "Rendered">>,
     <<"Failed", "Selecting">>, <<"Empty", "Selecting">>, <<"Rendered", "Selecting">>}

C9_StageOrder ==
    [][/\ pc' # pc => <<pc, pc'>> \in PassEdges
       /\ (metrics' # << >> \/ charts' # << >>) => pc' = "Rendered"]_vars

\* C10: a forecast fetch that fails stores nothing and leaves every cached
\* entry as it was; a pass issues at most one forecast request; and a call
\* whose last call with the same inputs failed issues a new request.
C10_FailureNotCached ==
    [][/\ (pc = "Fetching" /\ pc' = "Failed") => fcache' = fcache /\ requests' = requests + 1
       /\ (pc = "Fetching" /\ pc' # "Fetching" /\ FetchKey \in lastFail) =>
              requests' = requests + 1
       /\ passReqs' <= 1]_vars

C10_Witness ==
    /\ pc = "Fetching"
    /\ FetchKey \in lastFail
    /\ \E k \in DOMAIN fcache : k # FetchKey /\ now - fcache[k].at < FORECAST_TTL

====
